---- MODULE Spec2Model ----
(***************************************************************************)
(* State-machine model of res/res_amqp.c: the registry of named AMQP       *)
(* connections (active_connections), the per-connection receive thread     *)
(* (recv_thread), and the public operations get / get_or_create / close /  *)
(* publish / declare_exchange, run by concurrent caller threads.           *)
(*                                                                         *)
(* ao2 objects are reference counted; an object's destructor               *)
(* (amqp_connection_dtor) runs when its last reference is dropped.  ao2    *)
(* locks are recursive mutexes.                                            *)
(***************************************************************************)
EXTENDS Integers, FiniteSets, Sequences, TLC

\* ------------------------------------------------------------------ bounds
\* Number of connection objects ao2_alloc can hand out before it fails.
MaxObj == 2
\* Number of API calls the caller threads make in all.
MaxCalls == 4

Obj == 1..MaxObj
NULL == 0

\* Caller threads using the public API.
Callers == {"c1", "c2"}

\* Connection names callers ask for; Configured are those amqp.conf defines.
Names == {"broker1", "nocfg"}
Configured == {"broker1"}

\* amqp_status_enum values ast_amqp_basic_publish distinguishes, plus one
\* code it has no case for.
NamedErrors ==
    {"AMQP_STATUS_TIMER_FAILURE", "AMQP_STATUS_HEARTBEAT_TIMEOUT",
     "AMQP_STATUS_NO_MEMORY", "AMQP_STATUS_TABLE_TOO_BIG",
     "AMQP_STATUS_CONNECTION_CLOSED", "AMQP_STATUS_SSL_ERROR",
     "AMQP_STATUS_TCP_ERROR", "AMQP_STATUS_SOCKET_ERROR"}
ResultCodes == {"AMQP_STATUS_OK"} \cup NamedErrors \cup {"AMQP_STATUS_BAD_URL"}

\* Outcomes of amqp_consume_message as recv_thread classifies them.
PollOutcomes == {"normal", "timeout", "error"}

\* Thread identities: callers are their own names, the receive thread of
\* object o is "r<o>".
Tr(o) == "r" \o ToString(o)
Free == "free"

VARIABLES
    cxns,                \* Obj -> struct ast_amqp_connection (+ ao2 header)
    active_connections,  \* the registry container: set of linked objects
    connections_lock,    \* holder of the registry lock, or Free
    rpc,                 \* Obj -> position of that object's recv_thread
    pc,                  \* caller -> position in the operation it runs
    arg,                 \* caller -> arguments of its get_or_create call
    cxn,                 \* caller -> local `cxn` of its get_or_create call
    res,                 \* caller -> local transport result (publish/declare)
    held,                \* caller -> the handle it owns a reference to
    ret,                 \* the API operation completed last and its result
    peer,                \* caller in get_or_create -> what a call of another
                         \*           caller for the same name did meanwhile
    calls                \* number of API calls made so far

vars == <<cxns, active_connections, connections_lock, rpc, pc, arg, cxn, res,
          held, ret, peer, calls>>

\* ------------------------------------------------------------ object model
\* A slot ao2_alloc has not handed out yet.
Unalloc ==
    [alloc |-> "unalloc", name |-> "", state |-> "NULL", running |-> FALSE,
     recv_thread |-> "none", ref |-> 0, lock |-> Free,
     stage |-> "none", destroys |-> 0, unlinks |-> 0,
     returned |-> FALSE, closes |-> 0, nolock |-> 0]

\* Besides the fields of the struct and the ao2 header (alloc, ref, lock) an
\* object carries a record of what happened to it: `stage` the step its
\* build reached, `destroys` the amqp_destroy_connection calls on its live
\* handle, `unlinks` its removals from the registry, `returned` whether
\* get_or_create handed it to a caller, `closes` the
\* ast_amqp_connection_close calls made on it, `nolock` the accesses to its
\* running flag or transport handle made, once it was linked, by a thread
\* that did not hold its lock.

NoArg == [name |-> "", handler |-> "none"]
NoRet == [op |-> "none", val |-> 0, obj |-> NULL]
\* Nothing noted yet about a concurrent call (`seen` is false).
NoPeer == [seen |-> FALSE, val |-> NULL, built |-> FALSE]

Init ==
    /\ cxns = [o \in Obj |-> Unalloc]
    /\ active_connections = {}
    /\ connections_lock = Free
    /\ rpc = [o \in Obj |-> "none"]
    /\ pc = [c \in Callers |-> "idle"]
    /\ arg = [c \in Callers |-> NoArg]
    /\ cxn = [c \in Callers |-> NULL]
    /\ res = [c \in Callers |-> ""]
    /\ held = [c \in Callers |-> NULL]
    /\ ret = NoRet
    /\ peer = [c \in Callers |-> NoPeer]
    /\ calls = 0

\* A caller thread starts one more API call.
Call == calls < MaxCalls /\ calls' = calls + 1

\* ------------------------------------------------------------- ao2 helpers
\* A recursive mutex can be taken by thread t when free or already t's.
CanLock(l, t) == l = Free \/ l = t

\* Faulty variant: a registry lock that excludes nobody.
RegistryLockFree_NoLock(t) == TRUE

\* Whether thread t may take the registry lock (the container's ao2 lock).
RegistryLockFree(t) == CanLock(connections_lock, t)

\* amqp_connection_dtor: destroy the transport handle and clear the field.
\* `destroys` counts the amqp_destroy_connection calls made on a live
\* (non-NULL) handle; the memory is freed once the destructor returns.
AmqpConnectionDtor(r) ==
    [r EXCEPT !.destroys = @ + (IF r.state # "NULL" THEN 1 ELSE 0),
              !.state = "NULL",
              !.alloc = "freed"]

\* Faulty variant: an unref that destroys the object whatever its count.
Ao2Unref_Eager(cs, o) ==
    [cs EXCEPT ![o] = AmqpConnectionDtor([@ EXCEPT !.ref = 0])]

\* ao2_ref(o, -1) / ao2_cleanup(o): drop one reference; the last one runs
\* the destructor.
Ao2Unref(cs, o) ==
    IF cs[o].ref = 1
    THEN [cs EXCEPT ![o] = AmqpConnectionDtor([@ EXCEPT !.ref = 0])]
    ELSE [cs EXCEPT ![o].ref = @ - 1]

\* The destructor takes the object's lock, so the last unref by thread t
\* needs that lock to be available.
CanUnref(cs, o, t) == cs[o].ref > 1 \/ CanLock(cs[o].lock, t)

\* Faulty variant: a reference handed out without being counted.
Ao2Bump_NoRef(cs, o) == cs

\* ao2_bump / ao2_ref(o, +1): take one more reference.
Ao2Bump(cs, o) == [cs EXCEPT ![o].ref = @ + 1]

\* ao2_find(active_connections, name, OBJ_SEARCH_KEY): amqp_connection_cmp
\* matches on strcmp(cxn->name, key) = 0.
AmqpConnectionCmp(o, key) == cxns[o].name = key

\* Faulty variant: a lookup that never finds an entry.
Ao2Find_Miss(n) == NULL

Ao2Find(n) ==
    IF \E o \in active_connections : AmqpConnectionCmp(o, n)
    THEN CHOOSE o \in active_connections : AmqpConnectionCmp(o, n)
    ELSE NULL

\* The lowest slot ao2_alloc has not used yet (NULL when none is left).
FreshObj ==
    IF \E o \in Obj : cxns[o].alloc = "unalloc"
    THEN CHOOSE o \in Obj :
            /\ cxns[o].alloc = "unalloc"
            /\ \A p \in Obj : cxns[p].alloc = "unalloc" => o <= p
    ELSE NULL

GocPcs == {"goc_lock", "goc_create", "goc_link", "goc_handler", "goc_spawn"}
InGoc(c) == pc[c] \in GocPcs

\* ------------------------------------------------ ast_amqp_get_connection
\* Lock the registry, look the name up, return the (bumped) entry or NULL.
GetConnection(c, n) ==
    /\ Call
    /\ pc[c] = "idle"
    /\ held[c] = NULL
    /\ RegistryLockFree(c)
    /\ LET o == Ao2Find(n) IN
         /\ cxns' = IF o = NULL THEN cxns ELSE Ao2Bump(cxns, o)
         /\ held' = [held EXCEPT ![c] = o]
         /\ ret' = [op |-> "get", val |-> o, obj |-> o]
    /\ UNCHANGED <<active_connections, connections_lock, rpc, pc, arg, cxn,
                   res, peer>>

\* -------------------------------------- ast_amqp_get_or_create_connection
\* A caller enters the function and waits for the registry lock.
GetOrCreateCall(c, n, h) ==
    /\ Call
    /\ pc[c] = "idle"
    /\ held[c] = NULL
    /\ pc' = [pc EXCEPT ![c] = "goc_lock"]
    /\ arg' = [arg EXCEPT ![c] = [name |-> n, handler |-> h]]
    /\ UNCHANGED <<cxns, active_connections, connections_lock, rpc, cxn, res,
                   held, ret, peer>>

\* Return v from get_or_create: the scoped registry lock is released.
\* `built` tells whether this call ran the connect/login/channel-open
\* sequence; callers still inside a call for the same name note it.
GocReturn(c, v, built) ==
    /\ pc' = [pc EXCEPT ![c] = "idle"]
    /\ connections_lock' = Free
    /\ held' = [held EXCEPT ![c] = v]
    /\ ret' = [op |-> "goc", val |-> v, obj |-> v]
    /\ arg' = [arg EXCEPT ![c] = NoArg]
    /\ cxn' = [cxn EXCEPT ![c] = NULL]
    /\ peer' = [d \in Callers |->
                  IF d # c /\ InGoc(d) /\ arg[d].name = arg[c].name
                  THEN [seen |-> TRUE, val |-> v,
                        built |-> peer[d].built \/ built]
                  ELSE IF d = c THEN NoPeer ELSE peer[d]]

\* The object is handed to a caller by get_or_create.
Returned(cs, o) == [cs EXCEPT ![o].returned = TRUE]

\* Lines 336-341, 373: take the registry lock and look the name up; a hit is
\* returned as it is, a miss goes on to build a connection.
GocLockFind(c) ==
    /\ UNCHANGED calls
    /\ pc[c] = "goc_lock"
    /\ RegistryLockFree(c)
    /\ LET o == Ao2Find(arg[c].name) IN
         IF o # NULL
         THEN /\ cxns' = Returned(Ao2Bump(cxns, o), o)
              /\ GocReturn(c, o, FALSE)
              /\ UNCHANGED <<active_connections, rpc, res>>
         ELSE /\ connections_lock' = c
              /\ pc' = [pc EXCEPT ![c] = "goc_create"]
              /\ UNCHANGED <<cxns, active_connections, rpc, arg, cxn, res,
                             held, ret, peer>>

\* The steps of amqp_connection_create that can fail once the config has
\* been found, in the order the code takes them.
CreateFailures == {"alloc", "newconn", "socket", "open", "login", "channel"}

\* Whether a build that stops at step `fail` ("none": nowhere) got as far as
\* connecting (amqp_socket_open was called).
Connects(fail) == fail \in {"open", "login", "channel", "none"}

\* The object amqp_connection_create has built when it stops at step `fail`.
\* ao2_alloc zeroes the object and gives it one reference; cxn->state is
\* non-NULL once amqp_new_connection succeeded.
NewConnection(n, fail) ==
    [Unalloc EXCEPT !.alloc = "live", !.name = n,
                    !.state = IF fail = "newconn" THEN "NULL" ELSE "open",
                    !.ref = 1,
                    !.stage = IF fail = "none" THEN "ok" ELSE fail]

\* Faulty variant: an early return that leaks the object.
CreateCleanup_Leak(cs, o) == cs

\* RAII_VAR(cxn, NULL, ao2_cleanup) on an early `return NULL`: the only
\* reference is dropped, which runs the destructor.
CreateCleanup(cs, o) == Ao2Unref(cs, o)

\* Faulty variant: a configuration lookup that finds every name.
HasConfig_Any(n) == TRUE

\* Lines 255-259: amqp_config_get_connection(name) finds a configuration.
HasConfig(n) == n \in Configured

\* Lines 342-345 with amqp_connection_create (245-322), run under the
\* registry lock.  The object is private to the creating thread until it is
\* linked, so the whole build is one step.
AmqpConnectionCreate(c, fail) ==
    /\ UNCHANGED calls
    /\ pc[c] = "goc_create"
    /\ LET n == arg[c].name
           o == FreshObj
       IN
         IF ~HasConfig(n)
         THEN /\ fail = "none"
              /\ GocReturn(c, NULL, FALSE)
              /\ UNCHANGED <<cxns, active_connections, rpc, res>>
         ELSE IF fail = "alloc"
         THEN /\ GocReturn(c, NULL, FALSE)
              /\ UNCHANGED <<cxns, active_connections, rpc, res>>
         ELSE /\ o # NULL
              /\ IF fail # "none"
                 THEN /\ cxns' = CreateCleanup(
                                   [cxns EXCEPT ![o] = NewConnection(n, fail)], o)
                      /\ GocReturn(c, NULL, Connects(fail))
                      /\ UNCHANGED <<active_connections, rpc, res>>
                 ELSE /\ cxns' = [cxns EXCEPT ![o] = NewConnection(n, fail)]
                      /\ cxn' = [cxn EXCEPT ![c] = o]
                      /\ pc' = [pc EXCEPT ![c] = "goc_link"]
                      /\ UNCHANGED <<active_connections, connections_lock, rpc,
                                     arg, res, held, ret, peer>>

\* Faulty variant: a link step that goes on without inserting the object.
GocLink_NoInsert(c, ok) ==
    /\ UNCHANGED calls
    /\ pc[c] = "goc_link"
    /\ pc' = [pc EXCEPT ![c] = "goc_handler"]
    /\ UNCHANGED <<cxns, active_connections, connections_lock, rpc, arg, cxn,
                   res, held, ret, peer>>

\* Lines 347-351: ao2_link_flags gives the registry its own reference; if
\* it fails the caller's reference is dropped and NULL returned.
GocLink(c, ok) ==
    /\ UNCHANGED calls
    /\ pc[c] = "goc_link"
    /\ LET o == cxn[c] IN
         IF ok
         THEN /\ active_connections' = active_connections \cup {o}
              /\ cxns' = Ao2Bump(cxns, o)
              /\ pc' = [pc EXCEPT ![c] = "goc_handler"]
              /\ UNCHANGED <<connections_lock, rpc, arg, cxn, res, held, ret,
                             peer>>
         ELSE /\ cxns' = Ao2Unref(cxns, o)
              /\ GocReturn(c, NULL, TRUE)
              /\ UNCHANGED <<active_connections, rpc, res>>

\* What the failure exits of lines 353-364 undo: ao2_cleanup(cxn) drops the
\* caller's reference; the registry is left as it is.
GocUndoRegistry(reg, o) == reg
GocUndo(cs, o) == Ao2Unref(cs, o)

\* Lines 353-359: the creation handler, when one was supplied.
GocHandler(c) ==
    /\ UNCHANGED calls
    /\ pc[c] = "goc_handler"
    /\ LET o == cxn[c] IN
         IF arg[c].handler = "fail"
         THEN /\ CanUnref(cxns, o, c)
              /\ cxns' = GocUndo(cxns, o)
              /\ active_connections' = GocUndoRegistry(active_connections, o)
              /\ GocReturn(c, NULL, TRUE)
              /\ UNCHANGED <<rpc, res>>
         ELSE /\ pc' = [pc EXCEPT ![c] = "goc_spawn"]
              /\ UNCHANGED <<cxns, active_connections, connections_lock, rpc,
                             arg, cxn, res, held, ret, peer>>

\* Lines 360-373: allocate the thread arguments, mark the connection
\* running (no connection lock is taken here), start recv_thread and return
\* the connection.
GocSpawn(c, ok) ==
    /\ UNCHANGED calls
    /\ pc[c] = "goc_spawn"
    /\ LET o == cxn[c] IN
         IF ~ok
         THEN /\ CanUnref(cxns, o, c)
              /\ cxns' = GocUndo(cxns, o)
              /\ active_connections' = GocUndoRegistry(active_connections, o)
              /\ GocReturn(c, NULL, TRUE)
              /\ UNCHANGED <<rpc, res>>
         ELSE /\ cxns' = Returned([cxns EXCEPT ![o].running = TRUE,
                                               ![o].nolock = @ + 1,
                                               ![o].recv_thread = Tr(o)], o)
              /\ rpc' = [rpc EXCEPT ![o] = "start"]
              /\ GocReturn(c, o, TRUE)
              /\ UNCHANGED <<active_connections, res>>

\* ---------------------------------------------- ast_amqp_connection_close
\* Faulty variant: a close that flips the flag instead of clearing it.
CloseCxn_Toggle(cs, o) == [cs EXCEPT ![o].running = ~@, ![o].closes = @ + 1]

\* The body of ast_amqp_connection_close, run with the object's lock held.
CloseCxn(cs, o) == [cs EXCEPT ![o].running = FALSE, ![o].closes = @ + 1]

\* A caller calls ast_amqp_connection_close on the handle it holds and
\* waits for the connection lock.
ConnectionCloseCall(c) ==
    /\ Call
    /\ pc[c] = "idle"
    /\ held[c] # NULL
    /\ pc' = [pc EXCEPT ![c] = "close_lock"]
    /\ UNCHANGED <<cxns, active_connections, connections_lock, rpc, arg, cxn,
                   res, held, ret, peer>>

\* Lines 232-234: with the lock, clear `running`.
ConnectionClose(c) ==
    /\ UNCHANGED calls
    /\ pc[c] = "close_lock"
    /\ CanLock(cxns[held[c]].lock, c)
    /\ cxns' = CloseCxn(cxns, held[c])
    /\ pc' = [pc EXCEPT ![c] = "idle"]
    /\ ret' = [op |-> "close", val |-> 0, obj |-> held[c]]
    /\ UNCHANGED <<active_connections, connections_lock, rpc, arg, cxn, res,
                   held, peer>>

\* ------------------------------------------------- ast_amqp_basic_publish
\* Faulty variant: a table-too-big failure taken for a transient one.
PublishIsOk_Lenient(r) == r \in {"AMQP_STATUS_OK", "AMQP_STATUS_TABLE_TOO_BIG"}

\* The switch of lines 422-453: the result codes that are success.
PublishIsOk(r) == r = "AMQP_STATUS_OK"

\* Faulty variant: a publish without a connection that reports success.
PublishNull_Succeeds(c) ==
    /\ Call
    /\ pc[c] = "idle"
    /\ held[c] = NULL
    /\ ret' = [op |-> "publish", val |-> 0, obj |-> NULL]
    /\ UNCHANGED <<cxns, active_connections, connections_lock, rpc, pc, arg,
                   cxn, res, held, peer>>

\* Lines 407-409: no connection given.
PublishNull(c) ==
    /\ Call
    /\ pc[c] = "idle"
    /\ held[c] = NULL
    /\ ret' = [op |-> "publish", val |-> -1, obj |-> NULL]
    /\ UNCHANGED <<cxns, active_connections, connections_lock, rpc, pc, arg,
                   cxn, res, held, peer>>

\* Lines 411-418: take the connection lock, reject a NULL transport handle,
\* otherwise call amqp_basic_publish, which answers `code`.
PublishCall(c, code) ==
    /\ Call
    /\ pc[c] = "idle"
    /\ held[c] # NULL
    /\ CanLock(cxns[held[c]].lock, c)
    /\ IF cxns[held[c]].state = "NULL"
       THEN /\ code = "AMQP_STATUS_OK"
            /\ ret' = [op |-> "publish", val |-> -1, obj |-> held[c]]
            /\ UNCHANGED <<cxns, pc, res>>
       ELSE /\ cxns' = [cxns EXCEPT ![held[c]].lock = c]
            /\ pc' = [pc EXCEPT ![c] = "pub_switch"]
            /\ res' = [res EXCEPT ![c] = code]
            /\ UNCHANGED ret
    /\ UNCHANGED <<active_connections, connections_lock, rpc, arg, cxn, held,
                    peer>>

\* Lines 422-460: success returns 0; anything else is logged, closes the
\* connection (the lock is recursive) and returns -1.
PublishSwitch(c) ==
    /\ UNCHANGED calls
    /\ pc[c] = "pub_switch"
    /\ LET o == held[c] IN
         IF PublishIsOk(res[c])
         THEN /\ cxns' = [cxns EXCEPT ![o].lock = Free]
              /\ ret' = [op |-> "publish", val |-> 0, obj |-> o]
         ELSE /\ cxns' = [CloseCxn(cxns, o) EXCEPT ![o].lock = Free]
              /\ ret' = [op |-> "publish", val |-> -1, obj |-> o]
    /\ pc' = [pc EXCEPT ![c] = "idle"]
    /\ res' = [res EXCEPT ![c] = ""]
    /\ UNCHANGED <<active_connections, connections_lock, rpc, arg, cxn, held,
                    peer>>

\* ---------------------------------------------- ast_amqp_declare_exchange
\* Lines 379-381: no connection given.
DeclareNull(c) ==
    /\ Call
    /\ pc[c] = "idle"
    /\ held[c] = NULL
    /\ ret' = [op |-> "declare", val |-> -1, obj |-> NULL]
    /\ UNCHANGED <<cxns, active_connections, connections_lock, rpc, pc, arg,
                   cxn, res, held, peer>>

\* Lines 383-391: take the connection lock, reject a NULL transport handle,
\* otherwise call amqp_exchange_declare, which answers r ("ok": a reply,
\* "fail": NULL).
DeclareCall(c, r) ==
    /\ Call
    /\ pc[c] = "idle"
    /\ held[c] # NULL
    /\ CanLock(cxns[held[c]].lock, c)
    /\ IF cxns[held[c]].state = "NULL"
       THEN /\ r = "ok"
            /\ ret' = [op |-> "declare", val |-> -1, obj |-> held[c]]
            /\ UNCHANGED <<cxns, pc, res>>
       ELSE /\ cxns' = [cxns EXCEPT ![held[c]].lock = c]
            /\ pc' = [pc EXCEPT ![c] = "decl_ret"]
            /\ res' = [res EXCEPT ![c] = r]
            /\ UNCHANGED ret
    /\ UNCHANGED <<active_connections, connections_lock, rpc, arg, cxn, held,
                    peer>>

\* Faulty variant: a failed declare that requests close, as a failed
\* publish does.
DeclareFailed_Closes(cs, o) == [cs EXCEPT ![o].running = FALSE, ![o].closes = @ + 1]

\* What a failed amqp_exchange_declare does to the connection: nothing.
DeclareFailed(cs, o) == cs

\* Lines 389-397: a NULL reply is logged and -1 returned; otherwise 0.
DeclareRet(c) ==
    /\ UNCHANGED calls
    /\ pc[c] = "decl_ret"
    /\ LET o == held[c] IN
         IF res[c] = "fail"
         THEN /\ cxns' = [DeclareFailed(cxns, o) EXCEPT ![o].lock = Free]
              /\ ret' = [op |-> "declare", val |-> -1, obj |-> o]
         ELSE /\ cxns' = [cxns EXCEPT ![o].lock = Free]
              /\ ret' = [op |-> "declare", val |-> 0, obj |-> o]
    /\ pc' = [pc EXCEPT ![c] = "idle"]
    /\ res' = [res EXCEPT ![c] = ""]
    /\ UNCHANGED <<active_connections, connections_lock, rpc, arg, cxn, held,
                    peer>>

\* ------------------------------------------------------------ ao2_cleanup
\* A caller gives up the handle it holds (the header tells callers to free
\* every returned connection with ao2_cleanup).
Cleanup(c) ==
    /\ Call
    /\ pc[c] = "idle"
    /\ held[c] # NULL
    /\ CanUnref(cxns, held[c], c)
    /\ cxns' = Ao2Unref(cxns, held[c])
    /\ held' = [held EXCEPT ![c] = NULL]
    /\ ret' = [op |-> "release", val |-> 0, obj |-> held[c]]
    /\ UNCHANGED <<active_connections, connections_lock, rpc, pc, arg, cxn,
                   res, peer>>

\* ------------------------------------------------------------ recv_thread
\* Lines 115-121: snapshot cxn->state under the connection lock.  The
\* snapshot is the handle the object was built with; the field changes only
\* in the destructor.
RecvStart(o) ==
    /\ UNCHANGED calls
    /\ rpc[o] = "start"
    /\ CanLock(cxns[o].lock, Tr(o))
    /\ rpc' = [rpc EXCEPT ![o] = "top"]
    /\ UNCHANGED <<cxns, active_connections, connections_lock, pc, arg, cxn,
                   res, held, ret, peer>>

\* Faulty variant: a loop-top check that ignores the flag.
RecvTop_IgnoresFlag(o) ==
    /\ UNCHANGED calls
    /\ rpc[o] = "top"
    /\ CanLock(cxns[o].lock, Tr(o))
    /\ rpc' = [rpc EXCEPT ![o] = "polling"]
    /\ UNCHANGED <<cxns, active_connections, connections_lock, pc, arg, cxn,
                   res, held, ret, peer>>

\* Lines 131-139: read `running` under the lock; if set, drop the lock and
\* enter amqp_maybe_release_buffers / amqp_consume_message, else leave the
\* loop.
RecvTop(o) ==
    /\ UNCHANGED calls
    /\ rpc[o] = "top"
    /\ CanLock(cxns[o].lock, Tr(o))
    /\ rpc' = [rpc EXCEPT ![o] = IF cxns[o].running THEN "polling"
                                 ELSE "stopped"]
    /\ UNCHANGED <<cxns, active_connections, connections_lock, pc, arg, cxn,
                   res, held, ret, peer>>

\* Lines 142-146: the replies after which the loop just continues.
PollContinues(outcome) == outcome \in {"normal", "timeout"}

\* Lines 139-151: amqp_consume_message returns (at the latest after its
\* 100 ms timeout) with `outcome`.
RecvPoll(o, outcome) ==
    /\ UNCHANGED calls
    /\ rpc[o] = "polling"
    /\ rpc' = [rpc EXCEPT ![o] = IF PollContinues(outcome) THEN "top"
                                 ELSE "on_error"]
    /\ UNCHANGED <<cxns, active_connections, connections_lock, pc, arg, cxn,
                   res, held, ret, peer>>

\* Lines 148-151: on_error_cb is ast_amqp_connection_close.
RecvOnError(o) ==
    /\ UNCHANGED calls
    /\ rpc[o] = "on_error"
    /\ CanLock(cxns[o].lock, Tr(o))
    /\ cxns' = CloseCxn(cxns, o)
    /\ rpc' = [rpc EXCEPT ![o] = "top"]
    /\ UNCHANGED <<active_connections, connections_lock, pc, arg, cxn, res,
                   held, ret, peer>>

\* Lines 154-157: the loop is left; log under the connection lock.
RecvStopped(o) ==
    /\ UNCHANGED calls
    /\ rpc[o] = "stopped"
    /\ CanLock(cxns[o].lock, Tr(o))
    /\ rpc' = [rpc EXCEPT ![o] = "on_exit"]
    /\ UNCHANGED <<cxns, active_connections, connections_lock, pc, arg, cxn,
                   res, held, ret, peer>>

\* --------------------------------------------- amqp_connection_wait_close
\* Lines 159-160, 238: on_exit_cb is amqp_connection_wait_close, which
\* first takes the registry lock.
WaitCloseLock(o) ==
    /\ UNCHANGED calls
    /\ rpc[o] = "on_exit"
    /\ RegistryLockFree(Tr(o))
    /\ connections_lock' = Tr(o)
    /\ rpc' = [rpc EXCEPT ![o] = "join"]
    /\ UNCHANGED <<cxns, active_connections, pc, arg, cxn, res, held,
                   ret, peer>>

\* Line 240: pthread_join(cxn->recv_thread).  The thread named there is the
\* one running this code, so it joins itself: POSIX leaves that undefined.
\* An implementation that detects it returns EDEADLK at once ...
JoinReturn(o) ==
    /\ UNCHANGED calls
    /\ rpc[o] = "join"
    /\ cxns[o].recv_thread = Tr(o)
    /\ rpc' = [rpc EXCEPT ![o] = "unlink"]
    /\ UNCHANGED <<cxns, active_connections, connections_lock, pc, arg, cxn,
                   res, held, ret, peer>>

\* ... and one that does not waits for itself for ever, the registry lock
\* held.
JoinHang(o) ==
    /\ UNCHANGED calls
    /\ rpc[o] = "join"
    /\ cxns[o].recv_thread = Tr(o)
    /\ rpc' = [rpc EXCEPT ![o] = "hung"]
    /\ UNCHANGED <<cxns, active_connections, connections_lock, pc, arg, cxn,
                   res, held, ret, peer>>

\* ao2_unlink(active_connections, o): remove the entry and drop the
\* registry's reference, if the object is linked.
Ao2Unlink(cs, o) ==
    IF o \in active_connections
    THEN Ao2Unref([cs EXCEPT ![o].unlinks = @ + 1], o)
    ELSE cs

\* Faulty variant: a teardown that forgets the ao2_unlink.
WaitCloseUnlink_KeepsEntry(o) ==
    /\ UNCHANGED calls
    /\ rpc[o] = "unlink"
    /\ connections_lock' = Free
    /\ rpc' = [rpc EXCEPT ![o] = "done"]
    /\ UNCHANGED <<cxns, active_connections, pc, arg, cxn, res, held, ret,
                   peer>>

\* Lines 242-243, 163-165: unlink, release the registry lock, free the
\* thread arguments and end the thread.
WaitCloseUnlink(o) ==
    /\ UNCHANGED calls
    /\ rpc[o] = "unlink"
    /\ CanUnref(cxns, o, Tr(o))
    /\ cxns' = Ao2Unlink(cxns, o)
    /\ active_connections' = active_connections \ {o}
    /\ connections_lock' = Free
    /\ rpc' = [rpc EXCEPT ![o] = "done"]
    /\ UNCHANGED <<pc, arg, cxn, res, held, ret, peer>>

\* ------------------------------------------------------------------ system
CallerStep(c) ==
    \/ \E n \in Names : GetConnection(c, n)
    \/ \E n \in Names, h \in {"none", "ok", "fail"} : GetOrCreateCall(c, n, h)
    \/ GocLockFind(c)
    \/ \E fail \in CreateFailures \cup {"none"} : AmqpConnectionCreate(c, fail)
    \/ \E ok \in BOOLEAN : GocLink(c, ok)
    \/ GocHandler(c)
    \/ \E ok \in BOOLEAN : GocSpawn(c, ok)
    \/ ConnectionCloseCall(c)
    \/ ConnectionClose(c)
    \/ PublishNull(c)
    \/ \E code \in ResultCodes : PublishCall(c, code)
    \/ PublishSwitch(c)
    \/ DeclareNull(c)
    \/ \E r \in {"ok", "fail"} : DeclareCall(c, r)
    \/ DeclareRet(c)
    \/ Cleanup(c)

RecvStep(o) ==
    \/ RecvStart(o)
    \/ RecvTop(o)
    \/ \E outcome \in PollOutcomes : RecvPoll(o, outcome)
    \/ RecvOnError(o)
    \/ RecvStopped(o)
    \/ WaitCloseLock(o)
    \/ JoinReturn(o)
    \/ JoinHang(o)
    \/ WaitCloseUnlink(o)

Next ==
    \/ \E c \in Callers : CallerStep(c)
    \/ \E o \in Obj : RecvStep(o)

Spec == Init /\ [][Next]_vars

\* The steps that carry on a call a caller has begun.
CallerProgress(c) ==
    \/ GocLockFind(c)
    \/ \E fail \in CreateFailures \cup {"none"} : AmqpConnectionCreate(c, fail)
    \/ \E ok \in BOOLEAN : GocLink(c, ok)
    \/ GocHandler(c)
    \/ \E ok \in BOOLEAN : GocSpawn(c, ok)
    \/ ConnectionClose(c)
    \/ PublishSwitch(c)
    \/ DeclareRet(c)

\* Fair scheduling: a thread that can run again and again does run (so a
\* thread waiting for a lock that keeps being released gets it), transport
\* calls return, and callers finish the calls they began.  Callers need not
\* begin new calls.
FairSpec ==
    /\ Spec
    /\ \A o \in Obj : SF_vars(RecvStep(o))
    /\ \A c \in Callers : SF_vars(CallerProgress(c))

\* ================================================================ claims

\* The caller positions inside the part of get_or_create that builds,
\* links, validates and starts a connection.
Building == {"goc_create", "goc_link", "goc_handler", "goc_spawn"}

\* Caller c returns from get_or_create in this step.
GocReturns(c) == InGoc(c) /\ pc'[c] = "idle"

\* C1: in every reachable state the registry holds at most one connection
\* entry per name.
C1_UniquePerName ==
    \A o1 \in active_connections, o2 \in active_connections :
        cxns[o1].name = cxns[o2].name => o1 = o2

\* A second connection for a name is registered while the first one, torn
\* down earlier, is still referenced by a caller.
C1_Witness ==
    \E o1 \in Obj, o2 \in Obj :
        /\ o1 # o2
        /\ cxns[o1].name = cxns[o2].name
        /\ o1 \in active_connections
        /\ cxns[o2].unlinks = 1
        /\ cxns[o2].alloc = "live"

\* C2 as stated: concurrent get_or_create calls for one name run one build
\* sequence between them and all return the same object.  Checked on every
\* return of a call during which another call for the same name returned:
\* the two results are equal and the two calls did not both connect.
C2_Original ==
    [][\A c \in Callers :
          (GocReturns(c) /\ peer[c].seen) =>
             /\ ret'.val = peer[c].val
             /\ ~(peer[c].built /\
                  \/ pc[c] \in Building \ {"goc_create"}
                  \/ \E o \in Obj : /\ cxns[o].alloc = "unalloc"
                                    /\ cxns'[o].stage \in {"open", "login",
                                                          "channel"})]_vars

\* C2 amended: builds are serialized by the registry lock and started only
\* when the name has no entry; every handle returned is the name's entry at
\* that moment; and when a concurrent call returned a connection that is
\* still registered at this call's lookup, this call returns that same
\* object without building.
C2_Amended ==
    [][/\ \A c \in Callers, d \in Callers :
             (pc'[c] \in Building /\ pc'[d] \in Building) => c = d
       /\ \A c \in Callers :
             pc'[c] \in Building =>
                /\ connections_lock' = c
                /\ \A o \in active_connections' :
                      cxns'[o].name = arg'[c].name => o = cxn'[c]
       /\ \A c \in Callers :
             (GocReturns(c) /\ ret'.val # NULL) =>
                /\ ret'.val \in active_connections'
                /\ cxns'[ret'.val].name = arg[c].name
       /\ \A c \in Callers :
             (/\ GocReturns(c)
              /\ peer[c].seen
              /\ peer[c].val # NULL
              /\ peer[c].val \in active_connections) =>
                /\ ret'.val = peer[c].val
                /\ pc[c] = "goc_lock"]_vars

\* Two calls were made, both get_or_create: the second returned the object
\* the first built, and both callers hold it.
C2_Witness ==
    /\ calls = 2
    /\ ret.op = "goc"
    /\ ret.val # NULL
    /\ \A c \in Callers : held[c] = ret.val
    /\ cxns[ret.val].ref = 3
    /\ cxns[ret.val].stage = "ok"

\* C3: a publish that reached the transport (the handle was present) returns
\* success and leaves `running` as it was when the result code is OK; for
\* every other code it returns failure and `running` is false on return.
\* While the call is inside the transport `running` does not change.
C3_PublishResult ==
    [][\A c \in Callers :
          pc[c] = "pub_switch" =>
             LET o == held[c] IN
               /\ pc'[c] = "pub_switch" =>
                     cxns'[o].running = cxns[o].running
               /\ pc'[c] = "idle" =>
                     IF res[c] = "AMQP_STATUS_OK"
                     THEN /\ ret' = [op |-> "publish", val |-> 0, obj |-> o]
                          /\ cxns'[o].running = cxns[o].running
                          /\ cxns'[o].closes = cxns[o].closes
                     ELSE /\ ret' = [op |-> "publish", val |-> -1, obj |-> o]
                          /\ ~cxns'[o].running]_vars

\* A publish on a running connection got a failure code from the transport:
\* it returned -1 and the connection is no longer running.
C3_Witness ==
    /\ ret.op = "publish"
    /\ ret.val = -1
    /\ ret.obj # NULL
    /\ cxns[ret.obj].state = "open"
    /\ cxns[ret.obj].closes = 1
    /\ ~cxns[ret.obj].running
    /\ \E c \in Callers : held[c] = ret.obj /\ pc[c] = "idle"
    /\ \A c \in Callers : pc[c] # "close_lock"
    /\ rpc[ret.obj] = "polling"

\* C4 as stated: once close has been requested on a handle and teardown
\* has removed the connection's entry from the registry, a publish on that
\* still-held handle fails without getting to the transport publish
\* primitive.  Checked on the publish that follows the close of the handle.
C4_Claim ==
    [][\A c \in Callers :
          (/\ pc[c] = "idle"
           /\ held[c] # NULL
           /\ ret = [op |-> "close", val |-> 0, obj |-> held[c]]
           /\ cxns[held[c]].unlinks > 0
           /\ held[c] \notin active_connections) =>
             pc'[c] # "pub_switch"]_vars

\* C5 as stated: when the creation handler fails, get_or_create returns
\* NULL with the connection out of the registry and the object released.
C5_Claim ==
    [][\A c \in Callers :
          (pc[c] = "goc_handler" /\ pc'[c] = "idle") =>
             /\ ret' = [op |-> "goc", val |-> NULL, obj |-> NULL]
             /\ cxn[c] \notin active_connections'
             /\ cxns'[cxn[c]].alloc = "freed"]_vars

\* The steps of the build that fail with the transport handle allocated.
HandleFailures == {"socket", "open", "login", "channel"}

\* C6: when a step of the build fails, get_or_create returns NULL with the
\* registry as it was and no receive thread started, and the object it had
\* begun is destroyed, its transport handle (if amqp_new_connection had
\* produced one) released exactly once; that stays so afterwards.
C6_BuildFailure ==
    [][/\ \A c \in Callers :
             (pc[c] = "goc_create" /\ pc'[c] = "idle") =>
                /\ ret' = [op |-> "goc", val |-> NULL, obj |-> NULL]
                /\ held'[c] = NULL
                /\ active_connections' = active_connections
                /\ rpc' = rpc
                /\ connections_lock' = Free
                /\ \A o \in Obj :
                      cxns'[o] # cxns[o] =>
                         /\ cxns[o].alloc = "unalloc"
                         /\ cxns'[o].stage \in HandleFailures \cup {"newconn"}
       /\ \A o \in Obj :
             cxns'[o].stage \in HandleFailures \cup {"newconn"} =>
                /\ cxns'[o].alloc = "freed"
                /\ cxns'[o].state = "NULL"
                /\ cxns'[o].ref = 0
                /\ cxns'[o].destroys =
                      IF cxns'[o].stage \in HandleFailures THEN 1 ELSE 0
                /\ o \notin active_connections'
                /\ rpc'[o] = "none"]_vars

\* A login failure: NULL was returned, the object is gone and its handle
\* was released once.
C6_Witness ==
    /\ ret = [op |-> "goc", val |-> NULL, obj |-> NULL]
    /\ \E o \in Obj :
          /\ cxns[o].stage = "login"
          /\ cxns[o].alloc = "freed"
          /\ cxns[o].destroys = 1
    /\ active_connections = {}
    /\ connections_lock = Free

\* C7: a connection whose receive thread was started is removed from the
\* registry at most once, only by that thread's teardown, and exactly once
\* by the time the teardown has returned, whatever the order of an explicit
\* close, a fatal publish result and a fatal poll result.
C7_UnlinkOnce ==
    [][\A o \in Obj :
          /\ cxns'[o].unlinks <= 1
          /\ rpc'[o] = "done" <=> cxns'[o].unlinks = 1
          /\ rpc'[o] = "done" => o \notin active_connections'
          /\ (o \in active_connections /\ o \notin active_connections') =>
                /\ rpc[o] = "unlink"
                /\ rpc'[o] = "done"
          /\ (rpc[o] = "unlink" /\ rpc'[o] = "done") =>
                /\ o \in active_connections
                /\ cxns'[o].unlinks = cxns[o].unlinks + 1]_vars

\* Teardown has completed for a connection that was closed three times
\* over: by a caller, by a failed publish and by a fatal poll result.
C7_Witness ==
    \E o \in Obj :
        /\ rpc[o] = "done"
        /\ cxns[o].unlinks = 1
        /\ cxns[o].closes >= 3
        /\ o \notin active_connections

\* C9: ast_amqp_connection_close leaves `running` false and the transport
\* handle, the registry and the receive thread as they were; on a connection
\* already closed it changes nothing else; and no connection's transport
\* handle is ever released more than once.
C9_CloseIdempotent ==
    [][/\ \A c \in Callers :
             (pc[c] = "close_lock" /\ pc'[c] = "idle") =>
                LET o == held[c] IN
                  /\ ~cxns'[o].running
                  /\ cxns'[o] = [cxns[o] EXCEPT !.running = FALSE,
                                                !.closes = @ + 1]
                  /\ \A p \in Obj \ {o} : cxns'[p] = cxns[p]
                  /\ active_connections' = active_connections
                  /\ rpc' = rpc
                  /\ held' = held
       /\ \A o \in Obj : cxns'[o].destroys <= 1]_vars

\* Close has been called at least twice on a connection whose teardown has
\* completed and whose handle a caller still holds; the last API call to
\* complete was such a close.
C9_Witness ==
    /\ ret.op = "close"
    /\ ret.obj # NULL
    /\ cxns[ret.obj].closes >= 2
    /\ rpc[ret.obj] = "done"
    /\ cxns[ret.obj].state = "open"
    /\ cxns[ret.obj].destroys = 0
    /\ ~cxns[ret.obj].running

\* C10: a declare that gets a failure from the transport returns -1 and
\* leaves the connection (running flag, transport handle), the registry and
\* the receive thread as they were; it does not request close.
C10_DeclareFailure ==
    [][\A c \in Callers :
          (pc[c] = "decl_ret" /\ pc'[c] = "idle" /\ res[c] = "fail") =>
             LET o == held[c] IN
               /\ ret' = [op |-> "declare", val |-> -1, obj |-> o]
               /\ cxns' = [cxns EXCEPT ![o].lock = Free]
               /\ active_connections' = active_connections
               /\ rpc' = rpc]_vars

\* A declare failed on a running, registered connection, which is still
\* running and was never asked to close.
C10_Witness ==
    /\ ret = [op |-> "declare", val |-> -1, obj |-> ret.obj]
    /\ ret.obj # NULL
    /\ cxns[ret.obj].state = "open"
    /\ cxns[ret.obj].running
    /\ cxns[ret.obj].closes = 0
    /\ ret.obj \in active_connections

\* C8 as stated: under fair scheduling, once close has been requested on a
\* connection that get_or_create returned, the connection eventually leaves
\* the registry (the receive loop sees running = false, exits and tears
\* down), so that get(name) no longer resolves to it.
C8_Claim ==
    \A o \in Obj :
        [](( /\ cxns[o].returned
             /\ cxns[o].closes > 0
             /\ o \in active_connections)
           => <>(o \notin active_connections))

\* C11: publish and declare called with no connection, or on a connection
\* whose transport handle is NULL, return -1 at once: the call never gets to
\* amqp_basic_publish / amqp_exchange_declare, and the connections (running
\* flag included), the registry and the receive threads are as before.
\* Conversely a call that does get to the transport was made on a connection
\* with a handle.
C11_RejectAbsent ==
    [][/\ (/\ calls' = calls + 1
           /\ pc' = pc
           /\ ret'.op \in {"publish", "declare"}) =>
              /\ ret'.val = -1
              /\ ret'.obj = NULL \/ cxns[ret'.obj].state = "NULL"
              /\ cxns' = cxns
              /\ active_connections' = active_connections
              /\ rpc' = rpc
              /\ res' = res
       /\ \A c \in Callers :
             (pc[c] = "idle" /\ pc'[c] \in {"pub_switch", "decl_ret"}) =>
                /\ held[c] # NULL
                /\ cxns[held[c]].state # "NULL"]_vars

\* A declare with no connection has just failed while a connection is
\* registered and running, its receive thread polling.
C11_Witness ==
    /\ ret = [op |-> "declare", val |-> -1, obj |-> NULL]
    /\ \E o \in active_connections :
          /\ cxns[o].running
          /\ rpc[o] = "polling"
          /\ cxns[o].closes = 0

\* C12: a connection's transport handle is released at most once, only in
\* the step that destroys the object (the last reference dropped), and an
\* object destroyed after amqp_new_connection gave it a handle has had it
\* released exactly once.  An object that is in the registry, or that a
\* caller holds or is building, is alive with its handle unreleased.
C12_ReleaseAtDestruction ==
    [][\A o \in Obj :
          /\ cxns'[o].destroys <= 1
          /\ cxns'[o].destroys # cxns[o].destroys =>
                /\ cxns[o].alloc # "freed"
                /\ cxns'[o].alloc = "freed"
                /\ cxns'[o].ref = 0
          /\ (cxns'[o].alloc = "freed" /\ cxns'[o].stage # "newconn") =>
                cxns'[o].destroys = 1
          /\ (\/ o \in active_connections'
              \/ \E c \in Callers : held'[c] = o \/ cxn'[c] = o) =>
                /\ cxns'[o].alloc = "live"
                /\ cxns'[o].state = "open"
                /\ cxns'[o].destroys = 0
                /\ cxns'[o].ref >= 1]_vars

\* A connection went through its whole life: returned to a caller, torn
\* down by its receive thread, released by the caller, and destroyed with
\* its handle released once.
C12_Witness ==
    \E o \in Obj :
        /\ cxns[o].returned
        /\ cxns[o].unlinks = 1
        /\ rpc[o] = "done"
        /\ cxns[o].alloc = "freed"
        /\ cxns[o].destroys = 1
        /\ cxns[o].state = "NULL"

\* C13 as stated: every non-NULL handle get_or_create returns, newly built
\* or found in the registry, is of a connection whose running flag is true
\* when the call returns.
C13_Claim ==
    [][\A c \in Callers :
          (GocReturns(c) /\ ret'.val # NULL) =>
             cxns'[ret'.val].running]_vars

\* C14: get_or_create for a name amqp.conf does not define returns NULL
\* straight from the configuration lookup: no object is allocated and no
\* transport call made (no connection record changes), and the registry and
\* the receive threads are as before.  No object ever carries such a name.
C14_Unconfigured ==
    [][/\ \A c \in Callers :
             (GocReturns(c) /\ arg[c].name \notin Configured) =>
                /\ pc[c] = "goc_create"
                /\ ret' = [op |-> "goc", val |-> NULL, obj |-> NULL]
                /\ held'[c] = NULL
                /\ cxns' = cxns
                /\ active_connections' = active_connections
                /\ rpc' = rpc
                /\ connections_lock' = Free
       /\ \A o \in Obj : cxns'[o].name \in Configured \cup {""}]_vars

\* A get_or_create for the unconfigured name has returned NULL while the
\* configured name's connection is registered and no other object exists.
C14_Witness ==
    /\ ret = [op |-> "goc", val |-> NULL, obj |-> NULL]
    /\ calls = 2
    /\ \E c \in Callers : held[c] # NULL /\ pc[c] = "idle"
    /\ \E c \in Callers : held[c] = NULL /\ pc[c] = "idle"
    /\ Cardinality(active_connections) = 1
    /\ \E o \in Obj : cxns[o].alloc = "unalloc"

\* The threads that are inside a transport primitive on the handle of
\* object o: a caller between its amqp_basic_publish / amqp_exchange_declare
\* call and the evaluation of the result, and the receive thread inside
\* amqp_maybe_release_buffers / amqp_consume_message.
InTransport(o) ==
    {c \in Callers : held[c] = o /\ pc[c] \in {"pub_switch", "decl_ret"}}
        \cup (IF rpc[o] = "polling" THEN {Tr(o)} ELSE {})

\* C15 as stated: at most one thread at a time is inside a transport
\* primitive on a given connection's handle.
C15_Claim == \A o \in Obj : Cardinality(InTransport(o)) <= 1

\* Positions of recv_thread from the call of the exit callback on.
AfterLoop == {"on_exit", "join", "unlink", "done", "hung"}

\* C16: in recv_thread a poll that ends with a normal frame or a timeout
\* changes nothing and goes back to the loop-top check; any other outcome
\* goes through the error callback, after which running is false; running
\* never becomes true again once the thread exists, and the transport is
\* polled only straight after a loop-top check that read running = true, so
\* the check that follows an error leaves the loop without another poll.
\* The loop is left only through that check, leaving it leads to the exit
\* callback and nowhere else, and a thread that has called the exit
\* callback never calls it again.
C16_RecvLoop ==
    [][\A o \in Obj :
          /\ (rpc[o] = "polling" /\ rpc'[o] # "polling") =>
                /\ rpc'[o] \in {"top", "on_error"}
                /\ cxns' = cxns
          /\ (rpc[o] = "on_error" /\ rpc'[o] # "on_error") =>
                /\ rpc'[o] = "top"
                /\ ~cxns'[o].running
                /\ cxns'[o].closes = cxns[o].closes + 1
          /\ (rpc[o] = "top" /\ rpc'[o] # "top") =>
                rpc'[o] = IF cxns[o].running THEN "polling" ELSE "stopped"
          /\ (rpc[o] # "none" /\ ~cxns[o].running) => ~cxns'[o].running
          /\ (rpc'[o] = "polling" /\ rpc[o] # "polling") =>
                /\ rpc[o] = "top"
                /\ cxns[o].running
          /\ (rpc'[o] = "stopped" /\ rpc[o] # "stopped") =>
                /\ rpc[o] = "top"
                /\ ~cxns[o].running
          /\ (rpc[o] = "stopped" /\ rpc'[o] # "stopped") => rpc'[o] = "on_exit"
          /\ (rpc'[o] = "on_exit" /\ rpc[o] # "on_exit") => rpc[o] = "stopped"
          /\ rpc[o] \in AfterLoop =>
                /\ rpc'[o] \in AfterLoop
                /\ rpc'[o] = "on_exit" => rpc[o] = "on_exit"]_vars

\* A receive thread whose only close request came from its own error
\* callback, after a fatal poll result, has left the loop and called the
\* exit callback.
C16_Witness ==
    \E o \in Obj :
        /\ rpc[o] = "on_exit"
        /\ cxns[o].closes = 1
        /\ ~cxns[o].running
        /\ ret.op \notin {"close", "publish"}
        /\ \A c \in Callers : pc[c] = "idle"

\* C17 as stated: an entry leaves the registry only after the receive
\* thread of its connection has exited, i.e. the step that unlinks it is
\* never taken while that thread is still executing.
C17_Claim ==
    [][\A o \in Obj :
          (o \in active_connections /\ o \notin active_connections') =>
             rpc[o] \in {"none", "done"}]_vars

\* C18 as stated: whenever the registry lock is free, every entry of the
\* registry has a receive thread that was started and has not finished
\* teardown.
C18_Claim ==
    connections_lock = Free =>
        \A o \in active_connections : rpc[o] \notin {"none", "done"}

\* C19 as stated: every access to a connection's running flag and transport
\* handle is made by a thread holding that connection's lock, the write of
\* running by get_or_create included: no access is ever made without it.
C19_Claim == \A o \in Obj : cxns[o].nolock = 0

\* C20: the creation handler, when one is supplied, is called in one place
\* only, the step that follows the link: by the call that built the
\* connection, on an object that call alone knows and has just inserted in
\* the registry, not yet running and with no receive thread; running is set
\* and the thread started only after that step, and only if the handler did
\* not fail; the registry lock is held by the call from the build to its
\* return; and a call whose lookup finds an entry returns without passing
\* that step.
C20_HandlerOnce ==
    [][\A c \in Callers :
          /\ (pc'[c] = "goc_handler" /\ pc[c] # "goc_handler") =>
                /\ pc[c] = "goc_link"
                /\ cxn[c] \notin active_connections
                /\ cxn[c] \in active_connections'
                /\ cxns[cxn[c]].ref = 1
                /\ cxns[cxn[c]].unlinks = 0
          /\ pc[c] = "goc_handler" =>
                /\ cxn[c] \in active_connections
                /\ cxns[cxn[c]].stage = "ok"
                /\ ~cxns[cxn[c]].running
                /\ ~cxns[cxn[c]].returned
                /\ rpc[cxn[c]] = "none"
                /\ \A d \in Callers \ {c} : cxn[d] # cxn[c] /\ held[d] # cxn[c]
                /\ pc'[c] \in {"goc_handler", "goc_spawn", "idle"}
                /\ pc'[c] = "goc_spawn" => arg[c].handler # "fail"
                /\ pc'[c] = "idle" =>
                      /\ arg[c].handler = "fail"
                      /\ ~cxns'[cxn[c]].running
                      /\ rpc'[cxn[c]] = "none"
          /\ (pc'[c] = "goc_spawn" /\ pc[c] # "goc_spawn") =>
                pc[c] = "goc_handler"
          /\ pc[c] \in Building =>
                /\ connections_lock = c
                /\ pc'[c] \in Building => connections_lock' = c
          /\ pc[c] = "goc_lock" => pc'[c] \in {"goc_lock", "goc_create", "idle"}
          /\ \A o \in Obj :
                (\/ rpc[o] = "none" /\ rpc'[o] # "none"
                 \/ ~cxns[o].running /\ cxns'[o].running) =>
                   \E d \in Callers :
                      /\ pc[d] = "goc_spawn"
                      /\ cxn[d] = o
                      /\ pc'[d] = "idle"]_vars

\* A call has built and linked a connection and its handler has returned
\* success; it is about to start the receive thread, the registry lock
\* still held, while the other caller waits in a call for the same name.
C20_Witness ==
    \E c \in Callers, d \in Callers :
        /\ pc[c] = "goc_spawn"
        /\ arg[c].handler = "ok"
        /\ cxn[c] \in active_connections
        /\ connections_lock = c
        /\ pc[d] = "goc_lock"
        /\ arg[d].name = arg[c].name

\* C21 as stated: under fair scheduling no thread waits for ever: a caller
\* waiting for the registry lock (in get_or_create) or for a connection
\* lock (in close) gets on, and a receive thread that has called teardown
\* gets the registry lock, gets past the join of the receive thread and
\* completes the unlink.
C21_Claim ==
    /\ \A c \in Callers :
          /\ [](pc[c] = "goc_lock" => <>(pc[c] # "goc_lock"))
          /\ [](pc[c] = "close_lock" => <>(pc[c] # "close_lock"))
    /\ \A o \in Obj :
          [](rpc[o] \in {"on_exit", "join", "hung"} => <>(rpc[o] = "done"))

\* Positions at which recv_thread still has accesses to its connection
\* object or to the handle it snapshotted ahead of it: everything before
\* the return of ao2_unlink.
RecvLive == {"start", "top", "polling", "on_error", "stopped", "on_exit",
             "join", "hung", "unlink"}

\* C22: while recv_thread has accesses to its connection ahead of it the
\* object is alive with its transport handle unreleased, because it is
\* still in the registry, whose reference is dropped only by that thread's
\* own ao2_unlink; every step the thread takes is taken on a live object,
\* and once the object is destroyed the thread takes no further step.
C22_RecvNoUseAfterFree ==
    [][\A o \in Obj :
          /\ rpc'[o] \in RecvLive =>
                /\ cxns'[o].alloc = "live"
                /\ cxns'[o].state = "open"
                /\ cxns'[o].destroys = 0
                /\ cxns'[o].ref >= 1
                /\ o \in active_connections'
          /\ rpc'[o] # rpc[o] =>
                /\ cxns[o].alloc = "live"
                /\ cxns[o].state = "open"
          /\ cxns[o].alloc = "freed" => rpc'[o] = rpc[o]]_vars

\* Every caller has dropped its reference while the receive thread is
\* still polling: the registry's reference alone keeps the connection.
C22_Witness ==
    \E o \in Obj :
        /\ rpc[o] = "polling"
        /\ cxns[o].returned
        /\ cxns[o].ref = 1
        /\ ret = [op |-> "release", val |-> 0, obj |-> o]
        /\ \A c \in Callers : held[c] = NULL /\ pc[c] = "idle"

====
